---- MODULE Spec2Model ----
(***************************************************************************)
(* The synchronization hub of smdv (src/smdv.py): the canonical MESSAGE,   *)
(* the registries JSCLIENTS / PYCLIENTS, the history deques, the websocket *)
(* handlers serve_client / register_client / handle_message, the broadcast *)
(* send_message_to_all_js_clients, the shipped producers and the buttons   *)
(* of the browser page.                                                    *)
(*                                                                         *)
(* A message (a python dict / a JSON object) is a function from its keys   *)
(* to its values; the empty dict is the function with the empty domain.    *)
(* json.dumps / JSON.parse carry the keys and values of such a dict        *)
(* unchanged, so a payload is the dict as it was when it was serialized.   *)
(***************************************************************************)
EXTENDS Integers, Sequences, FiniteSets, TLC

\* ------------------------------------------------------------------ bounds
NConns == 2      \* connections the hub accepts in one behaviour
MaxMut == 3      \* canonical-state mutations explored in one behaviour
RecursionLimit == 4   \* invocations of encode the interpreter's stack allows
NSockets == 3    \* connections in the registries when unregister_client is called alone
MaxTokens == 2   \* pieces of a converted document when md2body's rewriting is called alone

Conns == 1..NConns

\* --------------------------------------------------------------- constants
HistoryCap == 20            \* cap of both history deques
ARGS_stdin == "md"          \* default of --stdin
ARGS_interactive == FALSE   \* default of --interactive
ARGS_nvim_address == "127.0.0.1:9878"

\* ------------------------------------------------------------ dict helpers
EmptyDict == <<>>
Has(d, k) == k \in DOMAIN d
Get(d, k, default) == IF k \in DOMAIN d THEN d[k] ELSE default
Update(d, e) == e @@ d                       \* dict.update: e wins
Set(d, k, v) == (k :> v) @@ d                \* d[k] = v
Pop(d, k) == [x \in DOMAIN d \ {k} |-> d[x]] \* d.pop(k, ...): the dict without k
HasAll(d, ks) == ks \subseteq DOMAIN d

\* ------------------------------------------------------- names and strings
\* The characters of the file names used by the producers of this model.
Chars(name) ==
    CASE name = "notes.md" -> <<"n", "o", "t", "e", "s", ".", "m", "d">>
      [] name = "@pipe"    -> <<"@", "p", "i", "p", "e">>
      [] name = "@put"     -> <<"@", "p", "u", "t">>
      [] name = ".bashrc"  -> <<".", "b", "a", "s", "h", "r", "c">>
      [] name = "nb.ipynb" -> <<"n", "b", ".", "i", "p", "y", "n", "b">>
      [] name = "a.weird"  -> <<"a", ".", "w", "e", "i", "r", "d">>
      [] name = ".rc.md"   -> <<".", "r", "c", ".", "m", "d">>
      [] OTHER             -> <<>>

RECURSIVE Join(_)
Join(cs) == IF cs = <<>> THEN "" ELSE Head(cs) \o Join(Tail(cs))

\* index of the last "." of cs, 0 when there is none (str.rfind)
RECURSIVE LastDot(_)
LastDot(cs) ==
    IF cs = <<>> THEN 0
    ELSE IF cs[Len(cs)] = "." THEN Len(cs)
    ELSE LastDot(SubSeq(cs, 1, Len(cs) - 1))

\* os.path.splitext(name)[1][1:]: the text after the last dot, empty when the
\* name has no dot or only leading dots before it
SplitExt(name) ==
    LET cs == Chars(name)
        d  == LastDot(cs)
    IN  IF d = 0 \/ (\A i \in 1..(d - 1) : cs[i] = ".")
        THEN ""
        ELSE Join(SubSeq(cs, d + 1, Len(cs)))

IsDotFileByFirstChar(name) == Chars(name) # <<>> /\ Chars(name)[1] = "."

\* filename[0] == "." and not "." in filename[1:]
IsDotFile(name) ==
    LET cs == Chars(name)
    IN  /\ cs # <<>>
        /\ cs[1] = "."
        /\ \A i \in 2..Len(cs) : cs[i] # "."

\* ---------------------------------------------------------------- renderers
\* markdown -> html (the URL rewriting of md2body acts on relative links only;
\* the contents of this model carry none)
md2body(content) == "<md>" \o content \o "</md>"

\* the fence line that txt2body puts before and after the text
Fence == "~~~"

txt2body(content) == md2body(Fence \o content \o Fence)

ipynb2body(content) == "<nb>" \o content \o "</nb>"

\* what the import of nbconvert / the export can do
NbOutcomes == {"html", "ImportError", "error"}

\* the directory tree served by the hub and the listing of a directory
Dirs == {"/", "/a/", "/b/"}

\* an entry of a directory as os.listdir and os.path.isdir give it
Entry(name, isdir) == [name |-> name, isdir |-> isdir]

\* os.listdir on the tree the hub serves, in the order the filesystem gives
ListDir(cwd) ==
    CASE cwd = "/"   -> <<Entry("b", TRUE), Entry("a", TRUE)>>
      [] cwd = "/a/" -> <<Entry("notes.md", FALSE)>>
      [] OTHER       -> <<Entry(".bashrc", FALSE)>>

\* str.upper
Upper(name) ==
    CASE name = "a" -> "A"
      [] name = "b" -> "B"
      [] name = "notes.md" -> "NOTES.MD"
      [] name = ".bashrc" -> ".BASHRC"
      [] OTHER -> name

\* the order of str on the keys above, smallest first
KeyOrder == <<".BASHRC", "A", "B", "NOTES.MD">>

KeyRank(key) == CHOOSE i \in 1..Len(KeyOrder) : KeyOrder[i] = key

\* sorted(paths, key=str.upper): stable, so entries with equal keys stay in
\* the order they came in
SortKey(name) == KeyRank(Upper(name))

RECURSIVE InsertSorted(_, _)
InsertSorted(e, sorted) ==
    IF sorted = <<>> THEN <<e>>
    ELSE IF SortKey(Head(sorted).name) <= SortKey(e.name)
    THEN <<Head(sorted)>> \o InsertSorted(e, Tail(sorted))
    ELSE <<e>> \o sorted

RECURSIVE Sorted(_)
Sorted(paths) ==
    IF paths = <<>> THEN <<>>
    ELSE InsertSorted(paths[Len(paths)], Sorted(SubSeq(paths, 1, Len(paths) - 1)))

IsDir(e) == e.isdir

IsFile(e) == ~e.isdir

\* dirlinks + filelinks: the entries in the order of the page
DirOrder(paths) == SelectSeq(Sorted(paths), IsDir) \o SelectSeq(Sorted(paths), IsFile)

Link(e) == IF e.isdir THEN "<a><b>" \o e.name \o "</b></a>" ELSE "<a>" \o e.name \o "</a>"

RECURSIVE JoinBr(_)
JoinBr(links) ==
    IF links = <<>> THEN ""
    ELSE IF Len(links) = 1 THEN Link(links[1])
    ELSE Link(Head(links)) \o "<br>" \o JoinBr(Tail(links))

\* dir2body on a directory that os.listdir enumerates as paths
dir2bodyOf(paths) == JoinBr(DirOrder(paths))

dir2body(cwd) == dir2bodyOf(ListDir(cwd))

\* the text of a file
FileBodyOf(name) == "# " \o name

\* Result of a python call that may raise: the value and whether it raised
Ok(v) == [raised |-> FALSE, val |-> v]
Raise(v) == [raised |-> TRUE, val |-> v]

\* line 990: the message is marked as encoded already
AlreadyEncodedNever(message) == FALSE

AlreadyEncoded(message) == Get(message, "fileEncoded", FALSE)

\* lines 1018-1020: the encoding an unknown encoding is retried with
FallbackSame(encoding) == encoding

FallbackMd(encoding) == "md"

FallbackEncoding(encoding) == "txt"

\* what one call of encode gives: the message, whether it raised, the
\* encodings it dispatched on in order (txt2body goes on to md2body) and the
\* number of invocations of encode
EncResult(raised, val, chain, calls) ==
    [raised |-> raised, val |-> val, chain |-> chain, calls |-> calls]

\* encode(message) entered with `calls` invocations on the stack; nb is what
\* the notebook renderer does.  The interpreter ends a recursion that reaches
\* its limit with RecursionError.
RECURSIVE encodeFrom(_, _, _, _)
encodeFrom(message, nb, chain, calls) ==
    IF calls >= RecursionLimit THEN EncResult(TRUE, message, chain, calls)
    ELSE IF AlreadyEncoded(message) THEN EncResult(FALSE, message, chain, calls + 1)
    ELSE
    LET m1 == Set(message, "fileEncoded", TRUE)
        declared == Get(message, "fileEncoding", "")
        filename == Get(message, "filename", "")
        n == calls + 1
    IN  IF declared = "" /\ filename = ""
        THEN EncResult(TRUE, m1, chain, n)     \* filename[0] of "" or None
        ELSE
        LET encoding == IF declared # "" THEN declared
                        ELSE IF IsDotFile(filename) THEN "txt"
                        ELSE IF SplitExt(filename) # "" THEN SplitExt(filename)
                        ELSE ARGS_stdin
            m2 == IF declared = "" THEN Set(m1, "fileEncoding", encoding) ELSE m1
            c1 == Append(chain, encoding)
            c2 == IF encoding = "txt" THEN Append(c1, "md") ELSE c1 \o <<"txt", "md">>
        IN  IF encoding = "md"
            THEN IF Has(m2, "fileBody")
                 THEN EncResult(FALSE, Set(m2, "fileBody", md2body(m2["fileBody"])), c1, n)
                 ELSE EncResult(TRUE, m2, c1, n)
            ELSE IF encoding = "ipynb" /\ ~Has(m2, "fileBody") THEN EncResult(TRUE, m2, c1, n)
            ELSE IF encoding = "ipynb" /\ nb = "html"
            THEN EncResult(FALSE, Set(m2, "fileBody", ipynb2body(m2["fileBody"])), c1, n)
            ELSE IF encoding = "ipynb" /\ nb = "error" THEN EncResult(TRUE, m2, c1, n)
            ELSE IF encoding = "ipynb" \/ encoding = "txt"
            THEN LET m3 == Set(m2, "fileEncoding", "txt")
                 IN  IF Has(m3, "fileBody")
                     THEN EncResult(FALSE, Set(m3, "fileBody", txt2body(m3["fileBody"])), c2, n)
                     ELSE EncResult(TRUE, m3, c2, n)
            ELSE IF m2["fileEncoding"] = "html" THEN EncResult(FALSE, m2, c1, n)
            ELSE encodeFrom(Set(Set(m2, "fileEncoding", FallbackEncoding(encoding)),
                                "fileEncoded", FALSE), nb, c1, n)

\* encode(message) called from outside: the message it returns, or that it raised
encode(message, nb) ==
    LET r == encodeFrom(message, nb, <<>>, 0)
    IN  [raised |-> r.raised, val |-> r.val]

\* ------------------------------------------------------------- wire schema
\* the keys validate_message requires
Keys == {"client", "func", "cwd", "cwdBody", "cwdEncoded", "filename",
         "fileBody", "fileCwd", "fileOpen", "fileEncoding", "fileEncoded"}

\* validate_message raises (AssertionError): the guard reads the key "client"
\* (default "func") and compares it with the names of the two actions
validate_message_raises(message) ==
    /\ Get(message, "client", "func") \in {"dir", "file"}
    /\ \E key \in Keys : ~Has(message, key)

\* ------------------------------------------------------------------ history
\* deque.appendleft followed by the cap: the entry farthest from the left goes
PushLeftDropsNewest(entry, stack) ==
    LET s == <<entry>> \o stack
    IN  IF Len(s) > HistoryCap THEN <<entry>> \o Tail(stack) ELSE s

PushLeft(entry, stack) ==
    LET s == <<entry>> \o stack
    IN  IF Len(s) > HistoryCap THEN SubSeq(s, 1, Len(s) - 1) ELSE s

\* lines 707-710: FORWARDMESSAGES.appendleft(entry) and, over the cap,
\* FORWARDMESSAGES.pop()
PushForwardUncapped(entry, stack) == <<entry>> \o stack

PushForward(entry, stack) ==
    LET s == <<entry>> \o stack
    IN  IF Len(s) > HistoryCap THEN SubSeq(s, 1, Len(s) - 1) ELSE s

SnapshotWhole(M) == M

SnapshotAsBack(M) ==
    [client |-> "py", func |-> "back", cwd |-> M["cwd"], cwdBody |-> M["cwdBody"],
     cwdEncoded |-> M["cwdEncoded"], filename |-> "", fileBody |-> "",
     fileCwd |-> "", fileOpen |-> FALSE, fileEncoding |-> "", fileEncoded |-> FALSE]

\* the directory-only snapshot pushed on the back stack
Snapshot(M) ==
    [client |-> "py", func |-> "dir", cwd |-> M["cwd"], cwdBody |-> M["cwdBody"],
     cwdEncoded |-> M["cwdEncoded"], filename |-> "", fileBody |-> "",
     fileCwd |-> "", fileOpen |-> FALSE, fileEncoding |-> "", fileEncoded |-> FALSE]

PushHistoryAlways(M, B) ==
    IF HasAll(M, {"cwd", "cwdBody", "cwdEncoded"}) THEN Ok(PushLeft(Snapshot(M), B))
    ELSE Raise(B)

PushHistoryNever(M, B) == Ok(B)

\* the history part of send_message_to_all_js_clients (lines 803-820); the
\* sends of lines 821-822 are the send tasks created by the caller's action
PushHistory(M, B) ==
    IF B # <<>> /\ ~Has(M, "cwd") THEN Raise(B)
    ELSE IF B = <<>> \/ M["cwd"] # B[1]["cwd"]
    THEN IF HasAll(M, {"cwd", "cwdBody", "cwdEncoded"})
         THEN Ok(PushLeft(Snapshot(M), B))
         ELSE Raise(B)
    ELSE Ok(B)

\* ----------------------------------------------------------- handle_message
\* The result of one call: the globals after it, whether it raised, whether it
\* reached the sends of the broadcast, whether it answered numJSClients.
Result(raised, M, B, F, sent, reply) ==
    [raised |-> raised, M |-> M, B |-> B, F |-> F, sent |-> sent, reply |-> reply]

\* lines 715-716: the message names no file and canonical state has one
NamesNoFileWhileOpen(M, message) ==
    /\ Get(message, "filename", "") = ""
    /\ Get(M, "filename", "") # ""
    /\ Get(M, "fileOpen", FALSE)

NamesNoFile(M, message) ==
    /\ Get(message, "filename", "") = ""
    /\ Get(M, "filename", "") # ""

\* lines 714-718: the file fields of canonical state are copied into the message
KeepsFileNever(M, message) == FALSE

KeepsFile(M, message) ==
    NamesNoFile(M, message) /\ ~Get(message, "forceClose", FALSE)

DirBranchAsSent(M, message) == Ok(message)

\* lines 713-726: the dir branch, giving the message to merge
DirBranch(M, message) ==
    LET merge == NamesNoFile(M, message)
        \* forceClose is popped only when the two tests before it hold
        m1 == IF merge THEN Pop(message, "forceClose") ELSE message
        keep == KeepsFile(M, message)
    IN  IF keep /\ ~HasAll(M, {"fileCwd", "fileBody", "fileEncoding", "fileEncoded"})
        THEN Raise(m1)
        ELSE
        LET m2 == IF keep
                  THEN [k \in DOMAIN m1 \cup {"filename", "fileCwd", "fileBody",
                                              "fileEncoding", "fileEncoded"} |->
                          IF k \in {"filename", "fileCwd", "fileBody",
                                    "fileEncoding", "fileEncoded"}
                          THEN M[k] ELSE m1[k]]
                  ELSE m1
        IN  IF ~Has(m2, "cwdEncoded") THEN Raise(m2)
            ELSE IF m2["cwdEncoded"] THEN Ok(m2)
            ELSE IF ~Has(m2, "cwd") THEN Raise(m2)
            ELSE Ok(Set(Set(m2, "cwdBody", dir2body(m2["cwd"])), "cwdEncoded", TRUE))

\* lines 727-728: the file branch, giving the message to merge
FileBranchSkips(message, nb) == Ok(message)

FileBranch(message, nb) == encode(message, nb)

\* lines 729-734: merge, then the history push of the broadcast
MergeAndSend(M, B, F, message) ==
    LET M1 == Update(M, message)
    IN  IF ARGS_interactive /\ M1["func"] = "file"
           /\ ~HasAll(M1, {"fileCwd", "filename"})
        THEN Result(TRUE, M1, B, F, FALSE, FALSE)
        ELSE LET h == PushHistory(M1, B)
             IN  Result(h.raised, M1, h.val, F, ~h.raised, FALSE)

\* lines 702-703: back with fewer than two entries returns
BackRebroadcasts(M, B, F) == Result(FALSE, M, B, F, TRUE, FALSE)

BackNoOp(M, B, F) == Result(FALSE, M, B, F, FALSE, FALSE)

RECURSIVE handle_message(_, _, _, _, _)
handle_message(M, B, F, msg, nb) ==
    LET func == Get(msg, "func", "")
        message == Pop(msg, "nvimAddress")
    IN  IF validate_message_raises(message) THEN Result(TRUE, M, B, F, FALSE, FALSE)
        ELSE IF func = "" THEN Result(FALSE, M, B, F, FALSE, FALSE)
        ELSE IF func = "numJSClients" THEN Result(FALSE, M, B, F, FALSE, TRUE)
        ELSE IF func = "editFile"
        THEN Result(~HasAll(M, {"fileCwd", "filename"}), M, B, F, FALSE, FALSE)
        ELSE IF func = "back"
        THEN IF Len(B) < 2 THEN BackNoOp(M, B, F)
             ELSE IF Get(message, "fileOpen", FALSE)
             THEN LET F1 == IF Len(F) > HistoryCap
                            THEN SubSeq(F, 1, Len(F) - 1) ELSE F
                  IN  handle_message(M, Tail(B), F1, B[1], nb)
             ELSE handle_message(M, Tail(Tail(B)), PushForward(B[1], F), B[2], nb)
        ELSE IF func = "dir"
        THEN LET d == DirBranch(M, message)
             IN  IF d.raised THEN Result(TRUE, M, B, F, FALSE, FALSE)
                 ELSE MergeAndSend(M, B, F, d.val)
        ELSE IF func = "file"
        THEN LET e == FileBranch(message, nb)
             IN  IF e.raised THEN Result(TRUE, M, B, F, FALSE, FALSE)
                 ELSE MergeAndSend(M, B, F, e.val)
        ELSE Result(FALSE, M, B, F, FALSE, FALSE)

\* lines 701-712: how many times handling msg calls handle_message again
RECURSIVE Reinvocations(_, _)
Reinvocations(B, msg) ==
    IF Get(msg, "func", "") = "back" /\ Len(B) >= 2
    THEN IF Get(msg, "fileOpen", FALSE)
         THEN 1 + Reinvocations(Tail(B), B[1])
         ELSE 1 + Reinvocations(Tail(Tail(B)), B[2])
    ELSE 0

\* ---------------------------------------------------- the shipped producers
\* send_as_pyclient_async stamps the role on every producer message
AsPy(m) == Set(m, "client", "py")

\* index(), GET of a file
GetFile(cwd, filename) ==
    AsPy([func |-> "file", cwd |-> cwd, cwdBody |-> dir2body(cwd), cwdEncoded |-> TRUE,
          filename |-> filename, fileBody |-> FileBodyOf(filename), fileCwd |-> cwd,
          fileOpen |-> TRUE, fileEncoding |-> "", fileEncoded |-> FALSE])

\* index(), GET of a directory
GetDir(cwd) ==
    AsPy([func |-> "dir", cwd |-> cwd, cwdBody |-> dir2body(cwd), cwdEncoded |-> TRUE,
          filename |-> "", fileBody |-> "", fileCwd |-> cwd,
          fileOpen |-> FALSE, fileEncoding |-> "", fileEncoded |-> FALSE])

\* index(), PUT; cwd is the working directory of the http process
Put(cwd) ==
    AsPy([func |-> "file", cwd |-> cwd, cwdBody |-> dir2body(cwd), cwdEncoded |-> TRUE,
          filename |-> "@put", fileBody |-> "put text", fileCwd |-> cwd,
          fileOpen |-> TRUE, fileEncoding |-> "md", fileEncoded |-> FALSE])

\* send_message_from_stdin with text that is not JSON; cwd is the working
\* directory of the command
Stdin(cwd) ==
    AsPy([fileBody |-> "piped text", func |-> "file", cwd |-> cwd, cwdEncoded |-> TRUE,
          cwdBody |-> dir2body(cwd), cwdCwd |-> cwd, filename |-> "@pipe",
          fileEncoding |-> ARGS_stdin, fileEncoded |-> FALSE, fileOpen |-> TRUE,
          nvimAddress |-> ARGS_nvim_address])

\* update_filename: the file named on the command line
Cli(cwd, filename) ==
    AsPy([func |-> "file", cwd |-> cwd, cwdBody |-> dir2body(cwd), cwdEncoded |-> TRUE,
          filename |-> filename, fileBody |-> FileBodyOf(filename), fileCwd |-> cwd,
          fileOpen |-> TRUE, fileEncoding |-> "", fileEncoded |-> FALSE,
          NvimAddress |-> ARGS_nvim_address])

\* ask_num_js_clients
NumJS == [client |-> "py", func |-> "numJSClients"]

\* the first message of the page (websocket.onopen)
NewJS == [func |-> "newjsclient", client |-> "js"]

\* the files of the tree: directory and name
Files == {<<"/a/", "notes.md">>}

\* working directories of the http process and of the command when they build
\* a PUT or stdin message
ProducerCwds == {"/b/"}

\* kind |-> message, for every message a shipped producer sends
ShippedProducer ==
    {[kind |-> "getfile", m |-> GetFile(f[1], f[2])] : f \in Files}
    \cup {[kind |-> "cli", m |-> Cli(f[1], f[2])] : f \in Files}
    \cup {[kind |-> "getdir", m |-> GetDir(d)] : d \in Dirs}
    \cup {[kind |-> "put", m |-> Put(d)] : d \in ProducerCwds}
    \cup {[kind |-> "stdin", m |-> Stdin(d)] : d \in ProducerCwds}
    \cup {[kind |-> "numjs", m |-> NumJS]}

\* messages no shipped client builds: a required key missing, a key too many,
\* a role that is neither js nor py
Malformed ==
    {[kind |-> "nokey", m |-> Pop(GetFile("/a/", "notes.md"), k)] : k \in {"cwd", "fileBody"}}
    \cup {[kind |-> "nokey", m |-> Pop(GetDir("/a/"), "cwdEncoded")]}
    \cup {[kind |-> "extrakey", m |-> Set(GetDir("/a/"), "bogus", "x")]}
    \cup {[kind |-> "badrole", m |-> Set(GetDir("/a/"), "client", "viewer")]}

\* ------------------------------------------------------ the page's buttons
\* message.cwd.slice(0, message.cwd.slice(0, -1).lastIndexOf("/")) + "/"
Parent(cwd) == CASE cwd = "/a/b/" -> "/a/" [] OTHER -> "/"

AsJs(m) == Set(m, "client", "js")

\* The buttons: shown is the message the navbar was last drawn from (the
\* visibility of a button), v the page's message variable (the guard inside
\* the handler and the message it sends).  Each gives a set of at most one
\* [kind, m, local]: the message sent and the page's message afterwards.
Click(kind, m) == {[kind |-> kind, m |-> AsJs(m), local |-> AsJs(m)]}

HomeButton(shown, v) ==
    IF Get(shown, "cwd", "") # "/" /\ ~Get(shown, "fileOpen", FALSE)
       /\ Get(v, "cwd", "") # "/"
    THEN Click("home", [func |-> "dir", cwd |-> "/", cwdBody |-> "",
                        cwdEncoded |-> FALSE, fileOpen |-> FALSE] @@ v)
    ELSE {}

BackButton(shown, v) ==
    IF ~Get(shown, "fileOpen", FALSE)
    THEN {[kind |-> "back", m |-> [func |-> "back", client |-> "js"], local |-> v]}
    ELSE {}

CurrentDirectory(shown, v) ==
    IF Get(v, "fileOpen", FALSE)
    THEN Click("curdir", [func |-> "dir", fileOpen |-> FALSE] @@ v)
    ELSE {}

ShowFile(shown, v) ==
    IF Get(shown, "filename", "") # "" /\ ~Get(v, "fileOpen", FALSE)
    THEN LET v1 == [fileOpen |-> TRUE, cwdEncoded |-> FALSE] @@ v
             \* an undefined fileCwd leaves the message without cwd
             v2 == IF Has(v, "fileCwd") THEN Set(v1, "cwd", v["fileCwd"])
                   ELSE Pop(v1, "cwd")
         IN  Click("showfile", v2)
    ELSE {}

UpDirectory(shown, v) ==
    IF Get(shown, "cwd", "") # "/" /\ ~Get(shown, "fileOpen", FALSE)
       /\ ~Get(v, "fileOpen", FALSE) /\ Has(v, "cwd")
    THEN Click("up", [func |-> "dir", cwd |-> Parent(v["cwd"]), cwdBody |-> "",
                      cwdEncoded |-> FALSE, fileOpen |-> FALSE] @@ v)
    ELSE {}

CloseFile(shown, v) ==
    IF Get(shown, "fileOpen", FALSE) /\ Get(v, "fileOpen", FALSE)
    THEN Click("close", [func |-> "dir", fileOpen |-> FALSE, filename |-> "",
                         fileBody |-> "", fileCwd |-> "", fileEncoding |-> "",
                         forceClose |-> TRUE] @@ v)
    ELSE {}

EditFile(shown, v) ==
    IF Get(shown, "fileOpen", FALSE) /\ Get(shown, "filename", "") \notin {"@pipe", "@put"}
    THEN {[kind |-> "edit", m |-> [func |-> "editFile", client |-> "js"], local |-> v]}
    ELSE {}

Buttons(shown, v) ==
    HomeButton(shown, v) \cup BackButton(shown, v) \cup CurrentDirectory(shown, v)
    \cup ShowFile(shown, v) \cup UpDirectory(shown, v) \cup CloseFile(shown, v)
    \cup EditFile(shown, v)

\* -------------------------------------------------------------------- state
VARIABLES
    MESSAGE,          \* the canonical state (global MESSAGE)
    BACKMESSAGES,     \* back stack, leftmost (top) first
    FORWARDMESSAGES,  \* forward stack, leftmost (top) first
    JSCLIENTS,        \* registry of viewers
    PYCLIENTS,        \* registry of producers
    pc,               \* where the serve_client coroutine of a connection stands
    alive,            \* the peer of the connection is still connected
    view,             \* the page's message variable (last payload, edited by clicks)
    shown,            \* the message the page's navbar was last drawn from
    nrecv,            \* number of state payloads the connection was sent
    vver,             \* number of merges the last payload sent to it reflects
    reply,            \* last answer to numJSClients sent on the connection, -1 if none
    sendq,            \* per viewer: the send tasks of broadcasts, oldest first
    nmut,             \* number of merges into MESSAGE so far
    lastBroadcast,    \* the payload of the last broadcast
    shipped,          \* every message so far came from a shipped producer or the page
    call              \* a function of the program called on its own: argument and results

vars == <<MESSAGE, BACKMESSAGES, FORWARDMESSAGES, JSCLIENTS, PYCLIENTS, pc, alive,
          view, shown, nrecv, vver, reply, sendq, nmut, lastBroadcast, shipped, call>>

hub == <<MESSAGE, BACKMESSAGES, FORWARDMESSAGES>>

\* no function is called on its own
NoCall == [fn |-> "none", n |-> 0, arg |-> EmptyDict, nb |-> "html",
           out |-> Ok(EmptyDict), prev |-> Ok(EmptyDict), chain |-> <<>>, calls |-> 0]

\* no connection yet
NoClients ==
    /\ JSCLIENTS = {}
    /\ PYCLIENTS = {}
    /\ pc = [c \in Conns |-> "new"]
    /\ alive = [c \in Conns |-> TRUE]
    /\ view = [c \in Conns |-> EmptyDict]
    /\ shown = [c \in Conns |-> EmptyDict]
    /\ nrecv = [c \in Conns |-> 0]
    /\ vver = [c \in Conns |-> 0]
    /\ reply = [c \in Conns |-> -1]
    /\ sendq = [c \in Conns |-> <<>>]
    /\ nmut = 0
    /\ shipped = TRUE

Init ==
    /\ MESSAGE = EmptyDict
    /\ BACKMESSAGES = <<>>
    /\ FORWARDMESSAGES = <<>>
    /\ lastBroadcast = EmptyDict
    /\ NoClients
    /\ call = NoCall

\* set.remove: KeyError when the element is not in the set
SetRemove(s, x) == IF x \in s THEN Ok(s \ {x}) ELSE Raise(s)

unregister_unguarded(registry, client) == SetRemove(registry, client)

\* unregister_client, for one of the two registries: remove the connection
\* if the registry holds it
unregister_client(registry, client) ==
    IF client \in registry THEN SetRemove(registry, client) ELSE Ok(registry)

\* asyncio.wait([client.send(json.dumps(MESSAGE)) for client in JSCLIENTS]):
\* one send task per registered viewer, each carrying the payload serialized
\* when the task is created; tasks start in the order they were created
ScheduleFirst(q, task) == <<task>> \o q

Schedule(q, task) == Append(q, task)

BroadcastToSender(queues, viewers, owner, payload, ver) ==
    [c \in Conns |->
        IF c \in viewers \cup {owner}
        THEN Schedule(queues[c], [owner |-> owner, payload |-> payload,
                                  ver |-> ver, st |-> "ready"])
        ELSE queues[c]]

Broadcast(queues, viewers, owner, payload, ver) ==
    [c \in Conns |->
        IF c \in viewers
        THEN Schedule(queues[c], [owner |-> owner, payload |-> payload,
                                  ver |-> ver, st |-> "ready"])
        ELSE queues[c]]

\* a handler suspended in asyncio.wait still waits for one of its tasks
HasPending(owner) ==
    \E c \in Conns : \E i \in DOMAIN sendq[c] : sendq[c][i].owner = owner

RemoveAt(q, i) == SubSeq(q, 1, i - 1) \o SubSeq(q, i + 1, Len(q))

\* the oldest task of q that has not started yet, 0 if there is none
FirstReady(q) ==
    IF \E i \in DOMAIN q : q[i].st = "ready"
    THEN CHOOSE i \in DOMAIN q :
            /\ q[i].st = "ready"
            /\ \A j \in DOMAIN q : q[j].st = "ready" => i <= j
    ELSE 0

\* Whether the nb outcome matters for this message
NbFor(m) == IF Get(m, "fileEncoding", "") = "ipynb" \/ SplitExt(Get(m, "filename", "")) = "ipynb"
            THEN NbOutcomes ELSE {"html"}

\* line 696: what a numJSClients message is answered with
CountAllClients(JS, PY) == Cardinality(JS \cup PY)

CountViewers(JS, PY) == Cardinality(JS)

\* handle_message(client, message) called by the coroutine of c, with the
\* registries as they are at the call.  inRegister: the call of line 761,
\* outside the try/finally of serve_client; otherwise the call of line 790.
Serve(c, kind, m, nb, JS1, PY1, inRegister) ==
    \E r \in {handle_message(MESSAGE, BACKMESSAGES, FORWARDMESSAGES, m, nb)} :
    LET merged == r.sent \/ (r.raised /\ r.M # MESSAGE)
        ver == IF merged THEN nmut + 1 ELSE nmut
    IN  /\ merged => nmut < MaxMut
        /\ MESSAGE' = r.M
        /\ BACKMESSAGES' = r.B
        /\ FORWARDMESSAGES' = r.F
        /\ nmut' = ver
        /\ lastBroadcast' = IF r.sent THEN r.M ELSE lastBroadcast
        /\ reply' = IF r.reply THEN [reply EXCEPT ![c] = CountViewers(JS1, PY1)] ELSE reply
        /\ IF r.raised
           THEN \* the exception ends serve_client; only the finally of the
                \* message loop unregisters
                /\ pc' = [pc EXCEPT ![c] = IF inRegister THEN "dead" ELSE "closed"]
                /\ alive' = [alive EXCEPT ![c] = FALSE]
                /\ JSCLIENTS' = IF inRegister THEN JS1 ELSE unregister_client(JS1, c).val
                /\ PYCLIENTS' = IF inRegister THEN PY1 ELSE unregister_client(PY1, c).val
                /\ sendq' = sendq
           ELSE /\ JSCLIENTS' = JS1
                /\ PYCLIENTS' = PY1
                /\ alive' = alive
                /\ IF r.sent /\ JS1 # {}
                   THEN /\ sendq' = Broadcast(sendq, JS1, c, r.M, ver)
                        /\ pc' = [pc EXCEPT ![c] = "wait"]
                   ELSE /\ sendq' = sendq
                        /\ pc' = [pc EXCEPT ![c] = "loop"]

\* line 756: the replay is the whole canonical state, serialized at that moment
ReplayDelta(M) == [k \in DOMAIN M \ {"cwdBody", "fileBody"} |-> M[k]]

ReplayPayload(M) == M

\* lines 754-760: the registry the declared client type leads to
RegistryOfLax(clienttype) ==
    IF clienttype = "js" THEN "JSCLIENTS" ELSE "PYCLIENTS"

RegistryOf(clienttype) ==
    IF clienttype = "js" THEN "JSCLIENTS"
    ELSE IF clienttype = "py" THEN "PYCLIENTS"
    ELSE "ValueError"

\* serve_client -> register_client: the first message of a connection.
\* replayOk: the send of the replay succeeds (otherwise the peer is gone and
\* the send raises).
Register(c, kind, m, replayOk, nb) ==
    /\ pc[c] = "new" /\ alive[c]
    /\ shipped' = (shipped /\ kind \notin {"nokey", "extrakey", "badrole"})
    /\ LET registry == RegistryOf(Get(m, "client", ""))
       IN  IF registry = "JSCLIENTS"
           THEN IF replayOk
                THEN /\ view' = [view EXCEPT ![c] = ReplayPayload(MESSAGE)]
                     /\ shown' = [shown EXCEPT ![c] = ReplayPayload(MESSAGE)]
                     /\ nrecv' = [nrecv EXCEPT ![c] = 1]
                     /\ vver' = [vver EXCEPT ![c] = nmut]
                     /\ Serve(c, kind, m, nb, JSCLIENTS \cup {c}, PYCLIENTS, TRUE)
                ELSE /\ JSCLIENTS' = JSCLIENTS \cup {c}
                     /\ pc' = [pc EXCEPT ![c] = "dead"]
                     /\ alive' = [alive EXCEPT ![c] = FALSE]
                     /\ UNCHANGED <<hub, PYCLIENTS, view, shown, nrecv, vver, reply,
                                    sendq, nmut, lastBroadcast>>
           ELSE IF registry = "PYCLIENTS"
           THEN /\ replayOk
                /\ Serve(c, kind, m, nb, JSCLIENTS, PYCLIENTS \cup {c}, TRUE)
                /\ UNCHANGED <<view, shown, nrecv, vver>>
           ELSE /\ replayOk
                /\ pc' = [pc EXCEPT ![c] = "dead"]
                /\ alive' = [alive EXCEPT ![c] = FALSE]
                /\ UNCHANGED <<hub, JSCLIENTS, PYCLIENTS, view, shown, nrecv, vver,
                               reply, sendq, nmut, lastBroadcast>>

\* a producer or a page connects and sends its first message
Connect(c) ==
    \* unused handles are interchangeable: the lowest one is taken
    /\ \A d \in Conns : d < c => pc[d] # "new"
    /\ \E x \in ShippedProducer \cup Malformed \cup {[kind |-> "newjs", m |-> NewJS]} :
        \E replayOk \in BOOLEAN : \E nb \in NbFor(x.m) :
            Register(c, x.kind, x.m, replayOk, nb)
    /\ UNCHANGED call

\* serve_client, line 789-790: the next message of a registered page, sent by
\* a click on one of its buttons
ReceiveMsg(c, b) ==
    /\ pc[c] = "loop" /\ alive[c] /\ c \in JSCLIENTS
    /\ b \in Buttons(shown[c], view[c])
    /\ view' = [view EXCEPT ![c] = b.local]
    /\ Serve(c, b.kind, b.m, "html", JSCLIENTS, PYCLIENTS, FALSE)
    /\ UNCHANGED <<shown, nrecv, vver, shipped, call>>

Receive(c) == \E b \in Buttons(shown[c], view[c]) : ReceiveMsg(c, b)

\* What a failed send does to the queues: the exception stays in its own task
\* (asyncio.wait returns the done tasks, it does not raise), so only that task
\* goes
SendFailedCancels(queues, c, i) ==
    [d \in Conns |->
        SelectSeq(queues[d], LAMBDA t : t.owner # queues[c][i].owner)]

SendFailed(queues, c, i) == [queues EXCEPT ![c] = RemoveAt(queues[c], i)]

\* line 822: the frame a send task writes is json.dumps(MESSAGE) as evaluated
\* when the list of sends was built, not canonical state M at the time of
\* the write
DeliveredLive(task, M) == M

Delivered(task, M) == task.payload

\* The event loop starts the oldest send task for viewer c: client.send writes
\* the frame when the connection is open and then waits for the transport to
\* drain (blocks: the viewer is slow and the wait does not end in this step);
\* on a closed connection it raises.
RunSend(c, blocks) ==
    LET i == FirstReady(sendq[c])
    IN  /\ i # 0
        /\ IF alive[c]
           THEN /\ view' = [view EXCEPT ![c] = Delivered(sendq[c][i], MESSAGE)]
                /\ shown' = [shown EXCEPT ![c] = Delivered(sendq[c][i], MESSAGE)]
                /\ nrecv' = [nrecv EXCEPT ![c] = @ + 1]
                /\ vver' = [vver EXCEPT ![c] = sendq[c][i].ver]
                /\ sendq' = IF blocks
                            THEN [sendq EXCEPT ![c][i].st = "drain"]
                            ELSE [sendq EXCEPT ![c] = RemoveAt(sendq[c], i)]
           ELSE /\ ~blocks
                /\ sendq' = SendFailed(sendq, c, i)
                /\ UNCHANGED <<view, shown, nrecv, vver>>
        /\ UNCHANGED <<hub, JSCLIENTS, PYCLIENTS, pc, alive, reply, nmut,
                       lastBroadcast, shipped, call>>

\* a send that waited for the transport ends: the buffer drained or the
\* connection was lost
Drained(c) ==
    /\ \E i \in DOMAIN sendq[c] :
          /\ sendq[c][i].st = "drain"
          /\ sendq' = [sendq EXCEPT ![c] = RemoveAt(sendq[c], i)]
    /\ UNCHANGED <<hub, JSCLIENTS, PYCLIENTS, pc, alive, view, shown, nrecv, vver,
                   reply, nmut, lastBroadcast, shipped, call>>

\* asyncio.wait returns once all its tasks are done; handle_message returns and
\* the coroutine goes (back) to the message loop
Resume(c) ==
    /\ pc[c] = "wait"
    /\ ~HasPending(c)
    /\ pc' = [pc EXCEPT ![c] = "loop"]
    /\ UNCHANGED <<hub, JSCLIENTS, PYCLIENTS, alive, view, shown, nrecv, vver, reply,
                   sendq, nmut, lastBroadcast, shipped, call>>

\* the peer of a registered connection goes away: a producer after its
\* message, a page when it is closed
Disconnect(c) ==
    /\ alive[c]
    /\ pc[c] \in {"loop", "wait"}
    /\ alive' = [alive EXCEPT ![c] = FALSE]
    /\ UNCHANGED pc
    /\ UNCHANGED <<hub, JSCLIENTS, PYCLIENTS, view, shown, nrecv, vver, reply,
                   sendq, nmut, lastBroadcast, shipped, call>>

\* the message loop of serve_client ends on a closed connection and its
\* finally unregisters the client
Finish(c) ==
    /\ pc[c] = "loop" /\ ~alive[c]
    /\ JSCLIENTS' = unregister_client(JSCLIENTS, c).val
    /\ PYCLIENTS' = unregister_client(PYCLIENTS, c).val
    /\ pc' = [pc EXCEPT ![c] = "closed"]
    /\ UNCHANGED <<hub, alive, view, shown, nrecv, vver, reply, sendq, nmut,
                   lastBroadcast, shipped, call>>

Next ==
    \/ \E c \in Conns : Connect(c)
    \/ \E c \in Conns : Receive(c)
    \/ \E c \in Conns : \E blocks \in BOOLEAN : RunSend(c, blocks)
    \/ \E c \in Conns : Drained(c)
    \/ \E c \in Conns : Resume(c)
    \/ \E c \in Conns : Disconnect(c)
    \/ \E c \in Conns : Finish(c)

Spec == Init /\ [][Next]_vars

\* ------------------------------------------- the hub after a long session
\* The history deques of a hub that was used for a while: the directories
\* /a/ and /b/ were visited in turn (GET of a directory) and back was used,
\* so both deques are one entry short of their cap; the last message handled
\* was the GET of the directory on top of the back stack.
Near == HistoryCap - 1

TrailDir(i, first, second) == IF i % 2 = 1 THEN first ELSE second

Trail(n, first, second) ==
    [i \in 1..n |-> Snapshot(GetDir(TrailDir(i, first, second)))]

InitHistory ==
    /\ BACKMESSAGES = Trail(Near, "/a/", "/b/")
    /\ FORWARDMESSAGES = Trail(Near, "/b/", "/")
    /\ MESSAGE = Update(EmptyDict, GetDir("/a/"))
    /\ lastBroadcast = Update(EmptyDict, GetDir("/a/"))
    /\ NoClients
    /\ call = NoCall

SpecHistory == InitHistory /\ [][Next]_vars

\* ------------------------------------------- a hub that shows a file to a page
\* The hub after a producer opened /a/notes.md and a page connected: the
\* producer's connection is over, the page is registered and shows the file.
\* The connections of the model are this page and one more to come.
OpenedFile == handle_message(EmptyDict, <<>>, <<>>, GetFile("/a/", "notes.md"), "html")

InitClose ==
    /\ MESSAGE = OpenedFile.M
    /\ BACKMESSAGES = OpenedFile.B
    /\ FORWARDMESSAGES = OpenedFile.F
    /\ lastBroadcast = OpenedFile.M
    /\ JSCLIENTS = {1}
    /\ PYCLIENTS = {}
    /\ pc = [c \in Conns |-> IF c = 1 THEN "loop" ELSE "new"]
    /\ alive = [c \in Conns |-> TRUE]
    /\ view = [c \in Conns |-> IF c = 1 THEN ReplayPayload(OpenedFile.M) ELSE EmptyDict]
    /\ shown = [c \in Conns |-> IF c = 1 THEN ReplayPayload(OpenedFile.M) ELSE EmptyDict]
    /\ nrecv = [c \in Conns |-> IF c = 1 THEN 1 ELSE 0]
    /\ vver = [c \in Conns |-> IF c = 1 THEN 1 ELSE 0]
    /\ reply = [c \in Conns |-> -1]
    /\ sendq = [c \in Conns |-> <<>>]
    /\ nmut = 1
    /\ shipped = TRUE
    /\ call = NoCall

SpecClose == InitClose /\ [][Next]_vars

\* --------------------------------------------------- encode called on its own
\* the messages encode is called with: every combination of a file name, a
\* declared encoding, the encoded mark and the presence of a body
EncodeNames == {"notes.md", ".bashrc", ".rc.md", "nb.ipynb", "a.weird", "@pipe", ""}

EncodeEncodings == {"", "md", "txt", "html", "ipynb", "weird"}

EncodeInputs ==
    {[filename |-> f, fileEncoding |-> e, fileEncoded |-> d, fileBody |-> "text"] :
        f \in EncodeNames, e \in EncodeEncodings, d \in BOOLEAN}
    \cup {[filename |-> f, fileEncoding |-> e, fileEncoded |-> d] :
        f \in EncodeNames, e \in EncodeEncodings, d \in BOOLEAN}

InitEncode ==
    /\ MESSAGE = EmptyDict
    /\ BACKMESSAGES = <<>>
    /\ FORWARDMESSAGES = <<>>
    /\ lastBroadcast = EmptyDict
    /\ NoClients
    /\ \E m \in EncodeInputs :
          call = [fn |-> "encode", n |-> 0, arg |-> m, nb |-> "html",
                  out |-> Ok(m), prev |-> Ok(m), chain |-> <<>>, calls |-> 0]

\* encode is called on what the call before it returned (on the argument the
\* first time); nb is what the notebook renderer would do in this call
EncodeCall ==
    /\ call.fn = "encode" /\ call.n < 2 /\ ~call.out.raised
    /\ \E nb \in NbOutcomes :
          LET r == encodeFrom(call.out.val, nb, <<>>, 0)
          IN  call' = [call EXCEPT !.n = @ + 1, !.nb = nb, !.prev = call.out,
                                   !.out = encode(call.out.val, nb),
                                   !.chain = r.chain, !.calls = r.calls]
    /\ UNCHANGED <<hub, JSCLIENTS, PYCLIENTS, pc, alive, view, shown, nrecv, vver,
                   reply, sendq, nmut, lastBroadcast, shipped>>

NextEncode == EncodeCall

SpecEncode == InitEncode /\ [][NextEncode]_vars

\* ------------------------------------------------ unregister_client alone
\* the connections a hub may hold, registered as page, as producer or not at all
Sockets == 1..NSockets

InitUnregister ==
    /\ MESSAGE = EmptyDict /\ BACKMESSAGES = <<>> /\ FORWARDMESSAGES = <<>>
    /\ lastBroadcast = EmptyDict
    /\ NoClients
    /\ \E js \in SUBSET Sockets : \E py \in SUBSET (Sockets \ js) : \E c \in Sockets :
          call = [fn |-> "unregister_client", n |-> 0, client |-> c, raised |-> FALSE,
                  JS |-> js, PY |-> py, prevJS |-> js, prevPY |-> py,
                  origJS |-> js, origPY |-> py]

\* one call of unregister_client(client) on the registries as the previous
\* call left them
UnregisterCall ==
    /\ call.fn = "unregister_client" /\ call.n < 2 /\ ~call.raised
    /\ LET a == unregister_client(call.JS, call.client)
           d == unregister_client(call.PY, call.client)
       IN  call' = [call EXCEPT !.n = @ + 1,
                                !.prevJS = call.JS, !.prevPY = call.PY,
                                !.JS = a.val,
                                !.PY = IF a.raised THEN call.PY ELSE d.val,
                                !.raised = a.raised \/ d.raised]
    /\ UNCHANGED <<MESSAGE, BACKMESSAGES, FORWARDMESSAGES, JSCLIENTS, PYCLIENTS, pc,
                   alive, view, shown, nrecv, vver, reply, sendq, nmut,
                   lastBroadcast, shipped>>

NextUnregister == UnregisterCall

SpecUnregister == InitUnregister /\ [][NextUnregister]_vars

\* --------------------------------------------------------- readiness polling
\* defaults of max_attempts
wait_for_server_max_attempts == 10

wait_for_connected_jsclient_max_attempts == 6

DefaultAttempts(fn) ==
    IF fn = "wait_for_server" THEN wait_for_server_max_attempts
    ELSE wait_for_connected_jsclient_max_attempts

\* what one probe can give.  request_server_status: connected, refused, or
\* ValueError for a server it does not know.  number_of_connected_jsclients:
\* a count above zero, zero, or the connection to the hub is refused.
ProbeOutcomes(fn, server) ==
    IF fn = "wait_for_server"
    THEN IF server \in {"flask", "websocket"} THEN {"ok", "fail"} ELSE {"ValueError"}
    ELSE {"ok", "fail", "ConnectionRefusedError"}

\* for _ in range(max_attempts): the loop is over
RangeNeverEnds(n, max_attempts) == FALSE

RangeExhausted(n, max_attempts) == n >= max_attempts

InitPoll ==
    /\ MESSAGE = EmptyDict /\ BACKMESSAGES = <<>> /\ FORWARDMESSAGES = <<>>
    /\ lastBroadcast = EmptyDict
    /\ NoClients
    /\ \E fn \in {"wait_for_server", "wait_for_connected_jsclient"} :
       \E max \in 0..DefaultAttempts(fn) :
       \E server \in IF fn = "wait_for_server" THEN {"flask", "websocket", "smtp"} ELSE {"websocket"} :
       \E status \in IF fn = "wait_for_server" THEN {"running", "stopped", "paused"} ELSE {"running"} :
          call = [fn |-> fn, max_attempts |-> max, server |-> server, status |-> status,
                  at |-> "entry", probes |-> 0, last |-> "none", err |-> "none"]

\* lines 1727-1728: wait_for_server refuses a status it does not know
\* before the loop; wait_for_connected_jsclient goes straight to the loop
PollEnter ==
    /\ call.at = "entry"
    /\ call' = IF call.fn = "wait_for_server" /\ call.status \notin {"running", "stopped"}
               THEN [call EXCEPT !.at = "raised", !.err = "ValueError"]
               ELSE [call EXCEPT !.at = "loop"]
    /\ UNCHANGED <<MESSAGE, BACKMESSAGES, FORWARDMESSAGES, JSCLIENTS, PYCLIENTS, pc,
                   alive, view, shown, nrecv, vver, reply, sendq, nmut,
                   lastBroadcast, shipped>>

\* one turn of the loop: probe, return on success, else sleep
PollProbe ==
    /\ call.at = "loop" /\ ~RangeExhausted(call.probes, call.max_attempts)
    /\ \E o \in ProbeOutcomes(call.fn, call.server) :
          call' = [call EXCEPT !.probes = @ + 1, !.last = o,
                               !.at = IF o = "ok" THEN "returned"
                                      ELSE IF o = "fail" THEN "loop" ELSE "raised",
                               !.err = IF o \in {"ok", "fail"} THEN "none" ELSE o]
    /\ UNCHANGED <<MESSAGE, BACKMESSAGES, FORWARDMESSAGES, JSCLIENTS, PYCLIENTS, pc,
                   alive, view, shown, nrecv, vver, reply, sendq, nmut,
                   lastBroadcast, shipped>>

\* lines 1705, 1732: the loop ran out
PollGiveUp ==
    /\ call.at = "loop" /\ RangeExhausted(call.probes, call.max_attempts)
    /\ call' = [call EXCEPT !.at = "raised", !.err = "ConnectionRefusedError"]
    /\ UNCHANGED <<MESSAGE, BACKMESSAGES, FORWARDMESSAGES, JSCLIENTS, PYCLIENTS, pc,
                   alive, view, shown, nrecv, vver, reply, sendq, nmut,
                   lastBroadcast, shipped>>

NextPoll == PollEnter \/ PollProbe \/ PollGiveUp

\* every probe and every sleep ends, so a call that can go on does
SpecPoll == InitPoll /\ [][NextPoll]_vars /\ WF_vars(NextPoll)

\* -------------------------------------------------------------- dir2body alone
\* entries a directory may hold; two of the names differ only by case
DirPool == {Entry("a", FALSE), Entry("A", FALSE), Entry("b", TRUE), Entry("notes.md", FALSE)}

\* the orders in which os.listdir may enumerate a directory
Enumerations(contents) ==
    {f \in [1..Cardinality(contents) -> contents] :
        \A i, j \in 1..Cardinality(contents) : f[i] = f[j] => i = j}

InitDir ==
    /\ MESSAGE = EmptyDict /\ BACKMESSAGES = <<>> /\ FORWARDMESSAGES = <<>>
    /\ lastBroadcast = EmptyDict
    /\ NoClients
    /\ \E contents \in SUBSET DirPool :
          call = [fn |-> "dir2body", n |-> 0, contents |-> contents, listing |-> <<>>,
                  order |-> <<>>, out |-> "", prev |-> ""]

\* one call of dir2body on the directory; the filesystem enumerates the
\* same entries in whatever order
DirCall ==
    /\ call.fn = "dir2body" /\ call.n < 2
    /\ \E paths \in Enumerations(call.contents) :
          call' = [call EXCEPT !.n = @ + 1, !.listing = paths, !.prev = call.out,
                               !.order = DirOrder(paths), !.out = dir2bodyOf(paths)]
    /\ UNCHANGED <<MESSAGE, BACKMESSAGES, FORWARDMESSAGES, JSCLIENTS, PYCLIENTS, pc,
                   alive, view, shown, nrecv, vver, reply, sendq, nmut,
                   lastBroadcast, shipped>>

NextDir == DirCall

SpecDir == InitDir /\ [][NextDir]_vars

\* ---------------------------------------------- the URL rewriting of md2body
\* The html that MD_INTERPRETER.convert returns, as a sequence of pieces: the
\* value of a src attribute, of a href attribute, or text between tags.  A
\* value is a sequence of atoms (a scheme, a slash, a name), so that one
\* string can occur inside another.
StaticRoot == "http://localhost:9876/@static/"

UrlValues == {<<"a.png">>, <<"b.md">>, <<"/", "a.png">>, <<"http://", "a.png">>}

Pieces == [attr : {"src", "href", "text"}, val : UrlValues]

RECURSIVE SeqsUpTo(_, _)
SeqsUpTo(S, n) ==
    IF n = 0 THEN {<<>>}
    ELSE SeqsUpTo(S, n - 1) \cup {Append(q, x) : q \in SeqsUpTo(S, n - 1), x \in S}

\* line 1253: url.startswith("/"), ("http://"), ("https://")
IsRelative(url) == url # <<>> /\ url[1] \notin {"/", "http://", "https://"}

\* str.replace(url, new) on one string: every occurrence of url in it
RECURSIVE StrReplace(_, _, _)
StrReplace(val, url, new) ==
    IF Len(val) < Len(url) \/ url = <<>> THEN val
    ELSE IF SubSeq(val, 1, Len(url)) = url
    THEN new \o StrReplace(SubSeq(val, Len(url) + 1, Len(val)), url, new)
    ELSE <<Head(val)>> \o StrReplace(Tail(val), url, new)

\* html.replace(url, new): in attribute values and in text alike
HtmlReplace(html, url, new) ==
    [i \in 1..Len(html) |-> [html[i] EXCEPT !.val = StrReplace(@, url, new)]]

IsSrc(p) == p.attr = "src"

IsHref(p) == p.attr = "href"

RECURSIVE Vals(_)
Vals(ps) == IF ps = <<>> THEN <<>> ELSE <<Head(ps).val>> \o Vals(Tail(ps))

\* lines 1246-1249: re.findall for src, then for href, one entry per occurrence
FindUrls(html) == Vals(SelectSeq(html, IsSrc)) \o Vals(SelectSeq(html, IsHref))

\* lines 1252-1254: the loop over the urls found
RECURSIVE RewriteUrls(_, _)
RewriteUrls(html, urls) ==
    IF urls = <<>> THEN html
    ELSE RewriteUrls(IF IsRelative(Head(urls))
                     THEN HtmlReplace(html, Head(urls), <<StaticRoot>> \o Head(urls))
                     ELSE html,
                     Tail(urls))

\* md2body after the conversion: lines 1246-1256
md2bodyUrls(html) == RewriteUrls(html, FindUrls(html))

InitMd ==
    /\ MESSAGE = EmptyDict /\ BACKMESSAGES = <<>> /\ FORWARDMESSAGES = <<>>
    /\ lastBroadcast = EmptyDict
    /\ NoClients
    /\ \E html \in SeqsUpTo(Pieces, MaxTokens) :
          call = [fn |-> "md2body", n |-> 0, arg |-> html, out |-> html]

MdCall ==
    /\ call.fn = "md2body" /\ call.n = 0
    /\ call' = [call EXCEPT !.n = 1, !.out = md2bodyUrls(call.arg)]
    /\ UNCHANGED <<MESSAGE, BACKMESSAGES, FORWARDMESSAGES, JSCLIENTS, PYCLIENTS, pc,
                   alive, view, shown, nrecv, vver, reply, sendq, nmut,
                   lastBroadcast, shipped>>

NextMd == MdCall

SpecMd == InitMd /\ [][NextMd]_vars

\* ------------------------------------------------------------------- claims
Last(q) == q[Len(q)]

\* a step in which a dir or file message was merged and its handler went on to
\* the sends of the broadcast
Handled == nmut' = nmut + 1 /\ alive' = alive

\* C1: a connection that registers as a viewer enters the viewer registry and
\* the first payload it is sent is the whole canonical state of that moment,
\* which, after any sequence of well-formed dir/file messages, is the payload
\* of the last broadcast.
C1_ReplayIsCanonical ==
    [][\A c \in Conns :
          (nrecv[c] = 0 /\ nrecv'[c] # 0) =>
              /\ c \notin JSCLIENTS /\ c \in JSCLIENTS'
              /\ nrecv'[c] = 1
              /\ view'[c] = MESSAGE
              /\ shipped => MESSAGE = lastBroadcast]_vars

C1_Witness ==
    \E c \in JSCLIENTS :
        /\ nrecv[c] = 1 /\ nmut > 0 /\ vver[c] = nmut /\ shipped
        /\ view[c] = lastBroadcast /\ Has(view[c], "cwdBody")

\* C2: when a dir or file message has been handled, one send of the new
\* canonical state is queued for every connection then in the viewer registry
\* and for no other connection; a producer is never sent a state.
C2_BroadcastToViewersOnly ==
    /\ [][Handled =>
            \A c \in Conns :
               IF c \in JSCLIENTS'
               THEN /\ Len(sendq'[c]) = Len(sendq[c]) + 1
                    /\ SubSeq(sendq'[c], 1, Len(sendq[c])) = sendq[c]
                    /\ Last(sendq'[c]).payload = MESSAGE'
                    /\ Last(sendq'[c]).st = "ready"
               ELSE sendq'[c] = sendq[c]]_vars
    /\ [](\A c \in PYCLIENTS : sendq[c] = <<>> /\ nrecv[c] = 0)

C2_Witness ==
    \E p \in PYCLIENTS : \E v \in JSCLIENTS :
        /\ pc[p] = "wait"
        /\ sendq[v] # <<>>
        /\ Last(sendq[v]).owner = p /\ Last(sendq[v]).payload = MESSAGE
        /\ sendq[p] = <<>>

\* C3 (as claimed): a dir or file message with a missing or an extraneous key
\* leaves canonical state and both history stacks as they were, closes the
\* connection that sent it and touches no other connection's registration.
C3_MalformedRejected ==
    [][\A c \in Conns : \A x \in Malformed :
          (x.kind \in {"nokey", "extrakey"}
           /\ \E nb \in NbFor(x.m) : Register(c, x.kind, x.m, TRUE, nb)) =>
              /\ UNCHANGED hub
              /\ ~alive'[c]
              /\ JSCLIENTS' \ {c} = JSCLIENTS \ {c}
              /\ PYCLIENTS' \ {c} = PYCLIENTS \ {c}]_vars

\* C4 (as claimed): no registry holds a connection whose serve_client
\* coroutine has ended.
C4_NoGoneConnectionRegistered ==
    \A c \in JSCLIENTS \cup PYCLIENTS : pc[c] \notin {"dead", "closed"}

\* C5: a first message whose role is neither js (viewer) nor py (producer) is
\* refused: the connection ends, enters no registry, its message is not
\* handled, canonical state and both stacks stay as they were.
BadRoleStep(c) ==
    \E x \in Malformed :
        x.kind = "badrole" /\ Register(c, x.kind, x.m, TRUE, "html")

C5_BadRoleRefused ==
    [][\A c \in Conns :
          BadRoleStep(c) =>
              /\ UNCHANGED <<hub, nmut, lastBroadcast, sendq, reply>>
              /\ c \notin JSCLIENTS' \cup PYCLIENTS'
              /\ JSCLIENTS' = JSCLIENTS /\ PYCLIENTS' = PYCLIENTS
              /\ pc'[c] = "dead" /\ ~alive'[c]]_vars

C5_Witness ==
    \E c \in Conns :
        /\ pc[c] = "dead" /\ c \notin JSCLIENTS \cup PYCLIENTS
        /\ ~shipped /\ MESSAGE = EmptyDict /\ nmut = 0

Quiescent ==
    /\ \A c \in Conns : sendq[c] = <<>> /\ pc[c] # "wait"

\* C7 (as claimed): once nothing is left to send, the last state sent to every
\* registered viewer whose connection is up is canonical state.
C7_ViewersConverge ==
    Quiescent =>
        \A c \in JSCLIENTS : (alive[c] /\ nrecv[c] > 0) => view[c] = MESSAGE

\* C8: a send of a broadcast that fails on a dead viewer takes nothing else
\* with it: the sends queued for the other viewers stay queued, no handler is
\* ended or resumed by it, canonical state and the stacks keep their values.
SendFailsOn(c) == ~alive[c] /\ RunSend(c, FALSE)

C8_SendFailureIsolated ==
    [][\A c \in Conns :
          SendFailsOn(c) =>
              /\ UNCHANGED <<hub, nmut, lastBroadcast, pc, alive, JSCLIENTS, PYCLIENTS>>
              /\ \A d \in Conns \ {c} : sendq'[d] = sendq[d]]_vars

\* a dead viewer missed the latest broadcast, a live one was sent it and the
\* handler that triggered it is back in its message loop
C8_Witness ==
    \E v \in JSCLIENTS : \E w \in JSCLIENTS :
        /\ ~alive[w] /\ sendq[w] = <<>> /\ nrecv[w] > 0 /\ vver[w] < nmut
        /\ alive[v] /\ vver[v] = nmut /\ view[v] = MESSAGE
        /\ lastBroadcast = MESSAGE
        /\ \A c \in Conns : pc[c] # "wait"

\* C9 (as claimed): a handler is never held in a broadcast by nothing but sends
\* that were written to a viewer and do not complete.
C9_SlowViewerDoesNotBlock ==
    \A c \in Conns :
        (pc[c] = "wait" /\ alive[c]) =>
            \E d \in Conns : \E i \in DOMAIN sendq[d] :
                sendq[d][i].owner = c /\ sendq[d][i].st = "ready"

\* C10 (as claimed): with messages of the shipped producers and the page only,
\* an open file view has a non-empty filename and a non-empty fileCwd.
C10_OpenFileHasNameAndCwd ==
    (shipped /\ Get(MESSAGE, "fileOpen", FALSE)) =>
        /\ Get(MESSAGE, "filename", "") # ""
        /\ Get(MESSAGE, "fileCwd", "") # ""

\* the fields of canonical state (func is the action); client is the role the
\* sender declared, which the merge stores as well
ViewStateFields == Keys

\* C11 (as claimed): once a dir or file message of a shipped producer or of the
\* page has been handled, the keys of canonical state are exactly the fields of
\* the view state and no other key.
C11_FixedFieldSet ==
    (shipped /\ nmut > 0) => DOMAIN MESSAGE = ViewStateFields

\* the back stack grew, or was changed without getting shorter: an entry was
\* pushed on it
PushedBack ==
    /\ BACKMESSAGES' # BACKMESSAGES
    /\ Len(BACKMESSAGES') >= Len(BACKMESSAGES)

\* the entries of stack that stay when one more is pushed on it
Kept(stack) ==
    SubSeq(stack, 1, IF Len(stack) = HistoryCap THEN HistoryCap - 1 ELSE Len(stack))

\* C12: the back stack never holds more than 20 entries, and a push puts the
\* snapshot of the new canonical state on top of the entries it held, without
\* the bottom one when it held 20.
C12_BackStackCapped ==
    /\ [](Len(BACKMESSAGES) <= HistoryCap)
    /\ [][PushedBack =>
            BACKMESSAGES' = <<Snapshot(MESSAGE')>> \o Kept(BACKMESSAGES)]_vars

\* two pushes on the stack of 19: the second one evicted the bottom entry
C12_Witness ==
    /\ Len(BACKMESSAGES) = HistoryCap
    /\ BACKMESSAGES[3] = Trail(Near, "/a/", "/b/")[1]
    /\ BACKMESSAGES[HistoryCap] = Trail(Near, "/a/", "/b/")[Near - 1]
    /\ BACKMESSAGES[1] = Snapshot(MESSAGE)

\* C13: the forward stack never holds more than 20 entries, and a back
\* navigation puts the top of the back stack on top of the entries the forward
\* stack held, without the one farthest from the top when it held 20.
C13_ForwardStackCapped ==
    /\ [](Len(FORWARDMESSAGES) <= HistoryCap)
    /\ [][FORWARDMESSAGES' # FORWARDMESSAGES =>
            /\ Len(BACKMESSAGES) >= 2
            /\ FORWARDMESSAGES' = <<BACKMESSAGES[1]>> \o Kept(FORWARDMESSAGES)]_vars

\* two back navigations on the stack of 19: the second one evicted the entry
\* farthest from the top
C13_Witness ==
    /\ Len(FORWARDMESSAGES) = HistoryCap
    /\ FORWARDMESSAGES[3] = Trail(Near, "/b/", "/")[1]
    /\ FORWARDMESSAGES[HistoryCap] = Trail(Near, "/b/", "/")[Near - 1]
    /\ FORWARDMESSAGES[1] = Trail(Near, "/a/", "/b/")[2]
    /\ FORWARDMESSAGES[2] = Trail(Near, "/a/", "/b/")[1]

\* a page's click on its back button is received and handled
BackStep(c) == \E b \in BackButton(shown[c], view[c]) : ReceiveMsg(c, b)

\* C14: a back message handled while the back stack holds fewer than 2 entries
\* changes neither canonical state nor a stack and creates no send to a viewer.
C14_ShortBackIsNoOp ==
    [][\A c \in Conns :
          (Len(BACKMESSAGES) < 2 /\ BackStep(c)) =>
              UNCHANGED <<hub, sendq, nmut, lastBroadcast, nrecv, view, pc>>]_vars

\* a registered page whose back button is shown, after a message was handled,
\* with one entry on the back stack: its click leaves this state as it is
C14_Witness ==
    \E c \in JSCLIENTS :
        /\ pc[c] = "loop" /\ alive[c]
        /\ BackButton(shown[c], view[c]) # {}
        /\ Len(BACKMESSAGES) = 1 /\ nmut > 0
        /\ view[c] = MESSAGE /\ sendq[c] = <<>>

\* C15 (as claimed): back handled while canonical state is a directory view
\* and the back stack holds at least 2 entries puts the top entry on top of the
\* forward stack, makes the entry beneath it canonical and broadcasts it.
C15_BackRestoresPrevious ==
    [][\A c \in Conns :
          (/\ shipped
           /\ Len(BACKMESSAGES) >= 2
           /\ ~Get(MESSAGE, "fileOpen", FALSE)
           /\ BackStep(c)) =>
              /\ FORWARDMESSAGES' = PushForward(BACKMESSAGES[1], FORWARDMESSAGES)
              /\ Get(MESSAGE', "cwd", "") = BACKMESSAGES[2]["cwd"]
              /\ Get(MESSAGE', "cwdBody", "") = BACKMESSAGES[2]["cwdBody"]
              /\ ~Get(MESSAGE', "fileOpen", FALSE)
              /\ nmut' = nmut + 1
              /\ lastBroadcast' = MESSAGE']_vars

\* C16 (as claimed): back handled while canonical state is a file view and the
\* back stack holds at least 2 entries only closes the file view: fileOpen
\* becomes false, canonical cwd is that of the entry that was on top of the
\* back stack and the forward stack is left alone.
C16_BackClosesFileView ==
    [][\A c \in Conns :
          (/\ shipped
           /\ Len(BACKMESSAGES) >= 2
           /\ Get(MESSAGE, "fileOpen", FALSE)
           /\ BackStep(c)) =>
              /\ ~Get(MESSAGE', "fileOpen", FALSE)
              /\ Get(MESSAGE', "cwd", "") = BACKMESSAGES[1]["cwd"]
              /\ FORWARDMESSAGES' = FORWARDMESSAGES]_vars

\* the file fields a dir message can keep
FileFields == {"filename", "fileCwd", "fileBody", "fileEncoding", "fileEncoded"}

\* the messages a connection can send in this state and the step that handles
\* one of them
Sendable(c) ==
    {x.m : x \in ShippedProducer \cup Malformed}
    \cup {b.m : b \in Buttons(shown[c], view[c])}

HandleStep(c, m) ==
    \/ \E x \in ShippedProducer \cup Malformed :
            x.m = m /\ \E nb \in NbFor(x.m) : Register(c, x.kind, x.m, TRUE, nb)
    \/ \E b \in Buttons(shown[c], view[c]) : b.m = m /\ ReceiveMsg(c, b)

FileFieldsKept ==
    \A k \in FileFields :
        /\ Has(MESSAGE', k) <=> Has(MESSAGE, k)
        /\ Has(MESSAGE, k) => MESSAGE'[k] = MESSAGE[k]

\* C17: a dir message with an empty filename and no forced close, handled
\* while canonical filename is non-empty, leaves canonical filename, fileCwd,
\* fileBody, fileEncoding and fileEncoded as they were; so does the snapshot
\* that back handles again.
C17_DirKeepsOpenFile ==
    [][\A c \in Conns :
          /\ \A m \in Sendable(c) :
                (/\ Get(MESSAGE, "filename", "") # ""
                 /\ Get(m, "func", "") = "dir"
                 /\ Get(m, "filename", "") = ""
                 /\ ~Get(m, "forceClose", FALSE)
                 /\ HandleStep(c, m)) => FileFieldsKept
          /\ (/\ Get(MESSAGE, "filename", "") # ""
              /\ Len(BACKMESSAGES) >= 2
              /\ BackStep(c)) => FileFieldsKept]_vars

\* notes.md of /a/ was opened, then the directory /b/ was requested: canonical
\* state shows /b/ and still carries the rendered file
C17_Witness ==
    /\ shipped
    /\ Get(MESSAGE, "func", "") = "dir"
    /\ Get(MESSAGE, "cwd", "") = "/b/"
    /\ ~Get(MESSAGE, "fileOpen", TRUE)
    /\ Get(MESSAGE, "filename", "") = "notes.md"
    /\ Get(MESSAGE, "fileCwd", "") = "/a/"
    /\ Get(MESSAGE, "fileBody", "") = md2body(FileBodyOf("notes.md"))
    /\ Get(MESSAGE, "fileEncoding", "") = "md"
    /\ Get(MESSAGE, "fileEncoded", FALSE)

\* a page's click on its close button is received and handled
CloseStep(c) == \E b \in CloseFile(shown[c], view[c]) : ReceiveMsg(c, b)

\* C18 (as claimed): after a dir message that requests a forced close has been
\* handled, canonical filename, fileBody, fileCwd and fileEncoding are empty
\* and fileOpen and fileEncoded are false.
C18_ForcedCloseClearsFile ==
    [][\A c \in Conns :
          (shipped /\ nmut' = nmut + 1 /\ CloseStep(c)) =>
              /\ \A k \in {"filename", "fileBody", "fileCwd", "fileEncoding"} :
                    Get(MESSAGE', k, "") = ""
              /\ ~Get(MESSAGE', "fileOpen", FALSE)
              /\ ~Get(MESSAGE', "fileEncoded", FALSE)]_vars

\* what the renderer of an encoding makes of a raw body (html is passed on)
Rendered(raw, encoding) ==
    CASE encoding = "md"    -> md2body(raw)
      [] encoding = "txt"   -> txt2body(raw)
      [] encoding = "ipynb" -> ipynb2body(raw)
      [] OTHER              -> raw

\* C19: when a file message has been merged, canonical fileBody is the
\* fileBody of encode applied to that message (for a message not yet marked
\* as encoded: the raw body passed through the renderer of its encoding) and
\* canonical fileEncoded is true.
C19_FileBodyIsEncoded ==
    [][\A c \in Conns : \A m \in Sendable(c) :
          (/\ nmut' = nmut + 1
           /\ Get(m, "func", "") = "file"
           /\ HandleStep(c, m)) =>
              /\ Get(MESSAGE', "fileEncoded", FALSE)
              /\ \E nb \in NbFor(m) :
                    LET e == encode(Pop(m, "nvimAddress"), nb)
                    IN  /\ ~e.raised
                        /\ MESSAGE'["fileBody"] = e.val["fileBody"]
              /\ ~Get(m, "fileEncoded", FALSE) =>
                    MESSAGE'["fileBody"] = Rendered(m["fileBody"], MESSAGE'["fileEncoding"])]_vars

\* the text of a PUT was merged as rendered markdown
C19_Witness ==
    /\ shipped
    /\ Get(MESSAGE, "func", "") = "file"
    /\ Get(MESSAGE, "filename", "") = "@put"
    /\ Get(MESSAGE, "fileBody", "") = md2body(Put("/b/")["fileBody"])
    /\ Get(MESSAGE, "fileEncoded", FALSE)

\* C20: encode returns a message marked as encoded as it is, whatever the
\* renderers would do (none is called), and what encode returns is marked as
\* encoded, so that encode applied to its own result returns that result.
C20_EncodeIdempotent ==
    call.fn = "encode" =>
        /\ (call.n >= 1 /\ Get(call.prev.val, "fileEncoded", FALSE)) =>
              call.out = call.prev
        /\ (call.n >= 1 /\ ~call.out.raised) => Get(call.out.val, "fileEncoded", FALSE)
        /\ call.n = 2 => call.out = call.prev

\* a notebook was rendered by the first call; the second call, in which the
\* notebook renderer would fail, returned the result of the first
C20_Witness ==
    /\ call.fn = "encode" /\ call.n = 2 /\ call.nb = "error"
    /\ ~Get(call.arg, "fileEncoded", FALSE)
    /\ Get(call.arg, "fileEncoding", "") = "ipynb"
    /\ ~call.out.raised
    /\ call.out.val["fileBody"] = ipynb2body(call.arg["fileBody"])
    /\ call.out = call.prev

\* ------------------------------------------------------------- C21 .. C23

KnownEncodings == {"md", "txt", "ipynb", "html"}

\* the encoding a call of encode dispatches on first: the declared one, else
\* the one inferred from the filename
Effective(message) ==
    IF Get(message, "fileEncoding", "") # "" THEN Get(message, "fileEncoding", "")
    ELSE IF IsDotFile(Get(message, "filename", "")) THEN "txt"
    ELSE IF SplitExt(Get(message, "filename", "")) # "" THEN SplitExt(Get(message, "filename", ""))
    ELSE ARGS_stdin

NoRepeat(chain) == \A i, j \in 1..Len(chain) : chain[i] = chain[j] => i = j

\* C21: whatever the declared or inferred encoding, a call of encode ends
\* within the interpreter's stack, takes at most three steps of the chain
\* unknown -> txt -> md, invokes itself at most once more, and no encoding
\* occurs twice among those it tried.
C21_EncodeTerminates ==
    (call.fn = "encode" /\ call.n >= 1) =>
        /\ call.calls \in 1..2
        /\ Len(call.chain) <= 3
        /\ NoRepeat(call.chain)
        /\ Len(call.chain) = 3 => SubSeq(call.chain, 2, 3) = <<"txt", "md">>
        /\ call.calls = 2 => /\ Len(call.chain) = 3
                             /\ call.chain[1] \notin KnownEncodings

C21_Witness ==
    /\ call.fn = "encode" /\ call.n = 1
    /\ Get(call.arg, "fileEncoding", "") = "weird"
    /\ call.chain = <<"weird", "txt", "md">>
    /\ call.calls = 2
    /\ ~call.out.raised

\* C22: a message with content, not yet encoded, whose encoding is none of
\* md, txt, ipynb, html comes back from encode without an exception, with
\* fileEncoding txt, fileEncoded true and fileBody the txt rendering of the
\* content it came in with.
C22_UnknownEncodingRendersTxt ==
    ( /\ call.fn = "encode" /\ call.n = 1
      /\ ~Get(call.arg, "fileEncoded", FALSE)
      /\ Has(call.arg, "fileBody")
      /\ Get(call.arg, "fileEncoding", "") # "" \/ Get(call.arg, "filename", "") # ""
      /\ Effective(call.arg) \notin KnownEncodings ) =>
        /\ ~call.out.raised
        /\ call.out.val["fileEncoding"] = "txt"
        /\ call.out.val["fileEncoded"] = TRUE
        /\ call.out.val["fileBody"] = txt2body(call.arg["fileBody"])

C22_Witness ==
    /\ call.fn = "encode" /\ call.n = 1
    /\ ~Get(call.arg, "fileEncoded", FALSE)
    /\ Get(call.arg, "fileEncoding", "") = "weird"
    /\ Get(call.arg, "filename", "") = "notes.md"
    /\ ~call.out.raised
    /\ call.out.val["fileEncoding"] = "txt"
    /\ call.out.val["fileBody"] = txt2body(call.arg["fileBody"])

\* C23: when the notebook renderer fails on an ipynb message with content,
\* because it is not installed or because the content is malformed, encode
\* returns the txt rendering with fileEncoding txt and raises nothing.
C23_NotebookFailureDegrades ==
    ( /\ call.fn = "encode" /\ call.n = 1
      /\ ~Get(call.arg, "fileEncoded", FALSE)
      /\ Has(call.arg, "fileBody")
      /\ Get(call.arg, "fileEncoding", "") = "ipynb"
      /\ call.nb \in {"ImportError", "error"} ) =>
        /\ ~call.out.raised
        /\ call.out.val["fileEncoding"] = "txt"
        /\ call.out.val["fileBody"] = txt2body(call.arg["fileBody"])

\* ------------------------------------------------------------------- C24

AsksNumJS(c) == \E replayOk \in BOOLEAN : Register(c, "numjs", NumJS, replayOk, "html")

\* C24: a numJSClients message is answered on the asking connection with
\* the number of connections in the viewer registry, the asking producer
\* not being in it; canonical state, both history stacks, every page and
\* every queue of pending sends stay as they were, so nothing is broadcast.
C24_NumJSClientsOnlyReplies ==
    [][\A c \in Conns :
        (pc[c] = "new" /\ AsksNumJS(c)) =>
            /\ reply'[c] = Cardinality(JSCLIENTS)
            /\ c \notin JSCLIENTS'
            /\ \A d \in Conns \ {c} : reply'[d] = reply[d]
            /\ UNCHANGED <<MESSAGE, BACKMESSAGES, FORWARDMESSAGES, JSCLIENTS,
                           lastBroadcast, nmut, sendq, view, shown, nrecv>>]_vars

C24_Witness ==
    \E c \in Conns :
        /\ reply[c] = 1
        /\ Cardinality(JSCLIENTS) = 1
        /\ c \notin JSCLIENTS
        /\ nmut = 0 /\ MESSAGE = EmptyDict

\* ------------------------------------------------------------------- C25

\* C25: unregister_client raises nothing; afterwards the connection is in
\* neither registry and every other connection is where it was; a call for a
\* connection that no registry holds (never registered, or unregistered by
\* the call before) leaves both registries as they were.
C25_UnregisterIdempotent ==
    (call.fn = "unregister_client" /\ call.n >= 1) =>
        /\ ~call.raised
        /\ call.client \notin call.JS \cup call.PY
        /\ \A d \in Sockets \ {call.client} :
              /\ d \in call.JS <=> d \in call.prevJS
              /\ d \in call.PY <=> d \in call.prevPY
        /\ (call.n = 2 \/ call.client \notin call.prevJS \cup call.prevPY) =>
              (call.JS = call.prevJS /\ call.PY = call.prevPY)

C25_Witness ==
    /\ call.fn = "unregister_client" /\ call.n = 2 /\ ~call.raised
    /\ call.client \in call.origPY
    /\ call.origJS # {} /\ Cardinality(call.origPY) = 2
    /\ call.JS = call.origJS
    /\ call.PY = call.origPY \ {call.client}
    /\ call.PY = call.prevPY

\* ------------------------------------------------------------------- C26

PollBounded ==
    call.fn \in {"wait_for_server", "wait_for_connected_jsclient"} =>
        /\ call.probes <= call.max_attempts
        /\ call.max_attempts <= DefaultAttempts(call.fn)
        /\ call.last = "ok" => call.at = "returned"
        /\ call.at = "returned" => call.last = "ok"
        /\ (call.at = "raised" /\ call.last \in {"none", "fail"} /\ call.err # "ValueError") =>
              (call.err = "ConnectionRefusedError" /\ call.probes = call.max_attempts)
        /\ (call.at = "loop" /\ call.probes > 0) => call.last = "fail"

PollEnded == call.at \in {"returned", "raised"}

MergedKeys(m) == DOMAIN Pop(m, "nvimAddress")

\* C27: whenever the hub merges the dir or file message of a shipped
\* producer, the message has the ten keys of the wire schema, the key
\* client, and no other.
C27_ProducersFollowSchema ==
    [][\A c \in Conns : \A x \in ShippedProducer :
        ( /\ pc[c] = "new"
          /\ x.m["func"] \in {"dir", "file"}
          /\ nmut' = nmut + 1
          /\ \E replayOk \in BOOLEAN : \E nb \in NbFor(x.m) :
                Register(c, x.kind, x.m, replayOk, nb) ) =>
            MergedKeys(x.m) = Keys]_vars

\* ------------------------------------------------------------------- C28

\* C28: dir2body puts every directory before every file, orders each group
\* by name without regard to case, and returns the same HTML on a second
\* call for the same contents, whatever order the entries are enumerated in.
C28_DirListingDeterministic ==
    (call.fn = "dir2body" /\ call.n >= 1) =>
        /\ \A i, j \in 1..Len(call.order) :
              (i < j) => /\ call.order[j].isdir => call.order[i].isdir
                         /\ call.order[i].isdir = call.order[j].isdir =>
                               KeyRank(Upper(call.order[i].name)) <= KeyRank(Upper(call.order[j].name))
        /\ call.n = 2 => call.out = call.prev

\* ------------------------------------------------------------ C29, C30

\* the back stack a merge finds: as it was, or without its two top entries
\* when the merged message is the one a back navigation handles again
StackBefore ==
    IF Len(BACKMESSAGES) >= 2 /\ \E c \in Conns : BackStep(c)
    THEN Tail(Tail(BACKMESSAGES)) ELSE BACKMESSAGES

TopDiffers(stack, M) == stack = <<>> \/ stack[1]["cwd"] # M["cwd"]

\* C29: when a dir or file message has been merged and handled to the end,
\* the back stack has the directory-only snapshot of the new canonical state
\* on top of what it held if it was empty or its top had another cwd than
\* the new canonical cwd, and is what it was otherwise.
C29_PushOnlyOnNewCwd ==
    [][Handled =>
          BACKMESSAGES' = IF TopDiffers(StackBefore, MESSAGE')
                          THEN <<Snapshot(MESSAGE')>> \o Kept(StackBefore)
                          ELSE StackBefore]_vars

\* two messages were merged and the stack holds one entry: the second one, a
\* file of the cwd already on top, pushed nothing
C29_Witness ==
    /\ nmut = 2 /\ Len(BACKMESSAGES) = 1
    /\ lastBroadcast = MESSAGE
    /\ Get(MESSAGE, "fileOpen", FALSE)
    /\ BACKMESSAGES[1]["cwd"] = MESSAGE["cwd"]

\* C30: when the hub has handled a dir or file message to the end, the one
\* a back navigation handles again included, the back stack is not empty
\* and the cwd of its top entry is the canonical cwd.
C30_TopOfBackStackIsCurrent ==
    [][Handled =>
          /\ BACKMESSAGES' # <<>>
          /\ Has(MESSAGE', "cwd")
          /\ BACKMESSAGES'[1]["cwd"] = MESSAGE'["cwd"]]_vars

\* two directories were visited and a back navigation went through
C30_Witness ==
    /\ nmut = 3 /\ Len(FORWARDMESSAGES) = 1
    /\ lastBroadcast = MESSAGE
    /\ BACKMESSAGES # <<>>
    /\ BACKMESSAGES[1]["cwd"] = MESSAGE["cwd"]
    /\ FORWARDMESSAGES[1]["cwd"] # MESSAGE["cwd"]

\* ------------------------------------------------------------------- C31

DirectoryOnly(e) ==
    /\ HasAll(e, {"func", "cwd", "cwdBody", "cwdEncoded", "filename", "fileBody",
                  "fileCwd", "fileOpen", "fileEncoding", "fileEncoded"})
    /\ e["func"] = "dir"
    /\ e["fileOpen"] = FALSE /\ e["fileEncoded"] = FALSE
    /\ e["filename"] = "" /\ e["fileBody"] = "" /\ e["fileCwd"] = ""
    /\ e["fileEncoding"] = ""

Entries(stack) == {stack[i] : i \in 1..Len(stack)}

\* C31: every entry of the back stack and of the forward stack is a
\* directory-only snapshot, and a step changes no entry that stays in a
\* stack: what the back stack holds afterwards is a run of what it held, in
\* the same order, under at most one new top, and the forward stack holds what it
\* held under at most the entry moved over from the top of the back stack.
C31_StacksHoldDirSnapshots ==
    /\ [](\A e \in Entries(BACKMESSAGES) \cup Entries(FORWARDMESSAGES) : DirectoryOnly(e))
    /\ [][/\ \E k \in 0..Len(BACKMESSAGES) : \E t \in 0..1 :
               /\ Len(BACKMESSAGES') >= t
               /\ k + Len(BACKMESSAGES') - t <= Len(BACKMESSAGES)
               /\ SubSeq(BACKMESSAGES', t + 1, Len(BACKMESSAGES')) =
                     SubSeq(BACKMESSAGES, k + 1, k + Len(BACKMESSAGES') - t)
          /\ \/ FORWARDMESSAGES' = FORWARDMESSAGES
             \/ /\ BACKMESSAGES # <<>>
                /\ FORWARDMESSAGES' = <<BACKMESSAGES[1]>> \o Kept(FORWARDMESSAGES)]_vars

\* a file was opened, another directory visited and a back navigation went
\* through: canonical state carries the file again, the entries do not
C31_Witness ==
    /\ nmut = 3 /\ Len(FORWARDMESSAGES) = 1 /\ BACKMESSAGES # <<>>
    /\ lastBroadcast = MESSAGE
    /\ Get(MESSAGE, "filename", "") # ""
    /\ Get(MESSAGE, "fileBody", "") # ""
    /\ BACKMESSAGES[1]["cwd"] = MESSAGE["cwd"]
    /\ BACKMESSAGES[1]["filename"] = ""

\* ------------------------------------------------------------------- C32

\* C32 (as claimed): a back message handled in directory view with n >= 2
\* entries d1..dn on the back stack makes the cwd of the entry beneath the
\* top canonical and leaves n - 1 entries, so that k backs lead to d(n-k);
\* with one entry left the back changes nothing.
C32_BackWalksHistory ==
    [][\A c \in Conns :
          (/\ shipped
           /\ BACKMESSAGES # <<>>
           /\ ~Get(MESSAGE, "fileOpen", FALSE)
           /\ BackStep(c)) =>
              IF Len(BACKMESSAGES) >= 2
              THEN /\ Get(MESSAGE', "cwd", "") = BACKMESSAGES[2]["cwd"]
                   /\ Len(BACKMESSAGES') = Len(BACKMESSAGES) - 1
              ELSE UNCHANGED <<MESSAGE, BACKMESSAGES>>]_vars

\* ------------------------------------------------------------------- C33

BackMessage == [func |-> "back", client |-> "js"]

\* C33: handling a back message calls handle_message again at most once,
\* and then with a dir message; the step merges at most once, creates at
\* most one send for each viewer, and a merge that completes is broadcast
\* as merged.
C33_BackReinvokesOnce ==
    [][\A c \in Conns :
          (pc[c] = "loop" /\ BackStep(c)) =>
              /\ Reinvocations(BACKMESSAGES, BackMessage) <= 1
              /\ Len(BACKMESSAGES) >= 2 =>
                    /\ Reinvocations(BACKMESSAGES, BackMessage) = 1
                    /\ BACKMESSAGES[2]["func"] = "dir"
              /\ nmut' \in {nmut, nmut + 1}
              /\ \A d \in Conns : Len(sendq'[d]) <= Len(sendq[d]) + 1
              /\ (nmut' = nmut + 1 /\ alive' = alive) => lastBroadcast' = MESSAGE']_vars

\* a back navigation was handled and merged: the page that asked has the one
\* send of its broadcast pending
C33_Witness ==
    \E c \in Conns :
        /\ nmut = 3 /\ Len(FORWARDMESSAGES) = 1
        /\ lastBroadcast = MESSAGE
        /\ pc[c] = "wait"
        /\ Len(sendq[c]) = 1
        /\ sendq[c][1].payload = MESSAGE
        /\ sendq[c][1].owner = c

\* ------------------------------------------------------------------- C34

\* a back navigation of connection c that went through: two entries or more
\* on the back stack, the snapshot merged and handled to the end
BackWentThrough(c) == Len(BACKMESSAGES) >= 2 /\ Handled /\ BackStep(c)

\* C34 (as claimed): a back navigation that goes through leaves canonical
\* fileOpen false and canonical filename, fileBody, fileCwd, fileEncoding
\* and fileEncoded as they were.
C34_BackKeepsFileFields ==
    [][\A c \in Conns :
          BackWentThrough(c) =>
              (Get(MESSAGE', "fileOpen", TRUE) = FALSE /\ FileFieldsKept)]_vars

\* C34 (as the code has it): a back navigation that goes through leaves
\* canonical fileOpen false; when canonical state names a file, its five
\* file fields stay as they were; when it names none, filename, fileBody and
\* fileEncoding stay empty while fileCwd and fileEncoded become those of the
\* snapshot, empty and false.
C34_BackKeepsNamedFile ==
    [][\A c \in Conns :
          BackWentThrough(c) =>
              /\ Get(MESSAGE', "fileOpen", TRUE) = FALSE
              /\ Get(MESSAGE, "filename", "") # "" => FileFieldsKept
              /\ Get(MESSAGE, "filename", "") = "" =>
                    /\ \A k \in {"filename", "fileBody", "fileEncoding", "fileCwd"} :
                          Get(MESSAGE', k, "none") = ""
                    /\ \A k \in {"fileBody", "fileEncoding"} : Get(MESSAGE, k, "") = ""
                    /\ Get(MESSAGE', "fileEncoded", TRUE) = FALSE]_vars

\* notes.md was opened in /a/, /b/ was visited, and back led to /a/ again:
\* the rendered file is still in canonical state, closed
C34_Witness ==
    /\ nmut = 3 /\ Len(FORWARDMESSAGES) = 1 /\ Len(BACKMESSAGES) = 1
    /\ lastBroadcast = MESSAGE
    /\ Get(MESSAGE, "cwd", "") = "/a/"
    /\ Get(MESSAGE, "fileOpen", TRUE) = FALSE
    /\ Get(MESSAGE, "filename", "") = "notes.md"
    /\ Get(MESSAGE, "fileCwd", "") = "/a/"
    /\ Get(MESSAGE, "fileBody", "") = md2body(FileBodyOf("notes.md"))
    /\ Get(MESSAGE, "fileEncoded", FALSE)

\* ------------------------------------------------------------------- C35

\* C35: forceClose is never a key of canonical state, of a broadcast or of
\* the payload of a pending send.
C35_ForceCloseConsumed ==
    /\ ~Has(MESSAGE, "forceClose")
    /\ ~Has(lastBroadcast, "forceClose")
    /\ \A c \in Conns : \A i \in 1..Len(sendq[c]) : ~Has(sendq[c][i].payload, "forceClose")

\* ------------------------------------------------------------------- C36

\* C36: when a dir message has been handled to the end, canonical
\* cwdEncoded is true, also for the snapshot a back navigation handles
\* again; if the message came with cwdEncoded false, canonical cwd is the
\* message's and canonical cwdBody is dir2body of it; and a page that
\* registers is sent canonical state as it is.
C36_DirBodyProjected ==
    [][\A c \in Conns :
          /\ \A m \in Sendable(c) :
                (/\ Get(m, "func", "") = "dir"
                 /\ Handled
                 /\ HandleStep(c, m)) =>
                    /\ Get(MESSAGE', "cwdEncoded", FALSE) = TRUE
                    /\ Get(m, "cwdEncoded", TRUE) = FALSE =>
                          /\ MESSAGE'["cwd"] = m["cwd"]
                          /\ MESSAGE'["cwdBody"] = dir2body(m["cwd"])
          /\ (Handled /\ BackStep(c)) => Get(MESSAGE', "cwdEncoded", FALSE) = TRUE
          /\ (pc[c] = "new" /\ pc'[c] = "loop" /\ c \in JSCLIENTS') =>
                (view'[c] = MESSAGE /\ MESSAGE' = MESSAGE)]_vars

\* a page asked for / with cwdEncoded false; a page that connected
\* afterwards was sent the projected listing
C36_Witness ==
    \E c \in Conns :
        /\ nmut = 1
        /\ Get(MESSAGE, "client", "") = "js"
        /\ Get(MESSAGE, "cwd", "") = "/"
        /\ Get(MESSAGE, "cwdEncoded", FALSE)
        /\ Get(MESSAGE, "cwdBody", "") = dir2body("/")
        /\ pc[c] = "loop" /\ nrecv[c] = 1
        /\ view[c] = MESSAGE /\ shown[c] = MESSAGE

\* ------------------------------------------------------------------- C37

\* the sends a step creates for viewer c
NewSends(c) ==
    IF Len(sendq'[c]) > Len(sendq[c])
    THEN {sendq'[c][i] : i \in (Len(sendq[c]) + 1)..Len(sendq'[c])}
    ELSE {}

\* C37: the sends of one broadcast carry, for every registered viewer, the
\* canonical state the triggering message left; pending sends of the same
\* broadcast carry the same payload whatever is merged meanwhile, and what
\* a viewer receives is the payload its send was created with.
C37_BroadcastPayloadFixed ==
    /\ [](\A c, d \in Conns : \A i \in 1..Len(sendq[c]) : \A j \in 1..Len(sendq[d]) :
            sendq[c][i].ver = sendq[d][j].ver => sendq[c][i].payload = sendq[d][j].payload)
    /\ [][\A c \in Conns :
            /\ nmut' = nmut + 1 =>
                  \A t \in NewSends(c) : t.payload = MESSAGE' /\ t.ver = nmut'
            /\ (nmut' = nmut + 1 /\ lastBroadcast' = MESSAGE' /\ c \in JSCLIENTS') =>
                  NewSends(c) # {}
            /\ (pc[c] # "new" /\ nrecv'[c] = nrecv[c] + 1) =>
                  /\ FirstReady(sendq[c]) # 0
                  /\ view'[c] = sendq[c][FirstReady(sendq[c])].payload
                  /\ vver'[c] = sendq[c][FirstReady(sendq[c])].ver]_vars

\* two pages show the opened file; the next message was merged while the
\* broadcast of the one before was under way: one page has received the
\* earlier state, the send to the other is still pending with the same
\* payload, which is no longer canonical state
C37_Witness ==
    \E c, d \in Conns :
        /\ c # d /\ {c, d} \subseteq JSCLIENTS
        /\ nmut = 3
        /\ vver[c] = 2 /\ view[c] # MESSAGE
        /\ sendq[d] # <<>>
        /\ sendq[d][1].ver = 2
        /\ sendq[d][1].payload = view[c]

\* ------------------------------------------------------------------- C38

\* request_server_status, lines 1491-1498: what a probe reports
ServerStatus(outcome) ==
    IF outcome = "ok" THEN "running" ELSE IF outcome = "fail" THEN "stopped" ELSE "none"

\* C38: when wait_for_server has returned, its last probe reported the
\* status it was called with.
C38_WaitsForAskedStatus ==
    (call.fn = "wait_for_server" /\ call.at = "returned") =>
        ServerStatus(call.last) = call.status

\* ------------------------------------------------------------------- C39

\* the encoding the rule of the claim gives for the names of EncodeNames
InferredFromName(name) ==
    CASE name = ".bashrc"  -> "txt"
      [] name = ".rc.md"   -> "md"
      [] name = "notes.md" -> "md"
      [] name = "nb.ipynb" -> "ipynb"
      [] name = "a.weird"  -> "weird"
      [] name = "@pipe"    -> ARGS_stdin
      [] OTHER             -> "none"

\* C39: a message not yet encoded that declares no encoding and has a
\* filename is dispatched on the encoding inferred from the name: txt for a
\* dot-file without further extension, else the extension after the last
\* dot, else the default of --stdin; notes.md with content comes back with
\* fileEncoding md, fileEncoded true and the md rendering.
C39_EncodingInferredFromName ==
    ( /\ call.fn = "encode" /\ call.n = 1
      /\ ~Get(call.arg, "fileEncoded", FALSE)
      /\ Get(call.arg, "fileEncoding", "") = ""
      /\ Get(call.arg, "filename", "") # "" ) =>
        /\ call.chain # <<>>
        /\ call.chain[1] = InferredFromName(call.arg["filename"])
        /\ (call.arg["filename"] = "notes.md" /\ Has(call.arg, "fileBody")) =>
              /\ ~call.out.raised
              /\ call.out.val["fileEncoding"] = "md"
              /\ call.out.val["fileEncoded"] = TRUE
              /\ call.out.val["fileBody"] = md2body(call.arg["fileBody"])

C39_Witness ==
    /\ call.fn = "encode" /\ call.n = 1
    /\ ~Get(call.arg, "fileEncoded", FALSE)
    /\ Get(call.arg, "fileEncoding", "") = ""
    /\ Get(call.arg, "filename", "") = ".bashrc"
    /\ call.chain = <<"txt", "md">>
    /\ ~call.out.raised
    /\ call.out.val["fileEncoding"] = "txt"

\* ------------------------------------------------------------------- C40

\* a piece as the claim has it after md2body
RewrittenOnce(p) ==
    IF p.attr \in {"src", "href"} /\ IsRelative(p.val)
    THEN [p EXCEPT !.val = <<StaticRoot>> \o @]
    ELSE p

\* C40: md2body puts the static root once in front of every src or href
\* value that is neither absolute nor rooted, and leaves every other value
\* and all text as they were.
C40_RelativeUrlsRewrittenOnce ==
    (call.fn = "md2body" /\ call.n = 1) =>
        /\ Len(call.out) = Len(call.arg)
        /\ \A i \in 1..Len(call.arg) : call.out[i] = RewrittenOnce(call.arg[i])
====
